---- MODULE Spec2Model ----
(***************************************************************************)
(* A state-machine model of the tooltip-aware series drawing of            *)
(* plotters' ChartContext over a Cartesian2d coordinate system             *)
(* (src/plotters/src/chart/context/cartesian2d/mod.rs).                    *)
(*                                                                         *)
(* One chart context is modelled: its series-id counter, its legend        *)
(* records, the context stack of its drawing area, its primary (and,       *)
(* once attached, secondary) coordinate system, and the position of the    *)
(* draw_series_with_tooltips call in progress.  Every backend operation    *)
(* (begin_context, draw, end_context) may succeed or fail.                 *)
(***************************************************************************)
EXTENDS Integers, Sequences, FiniteSets, TLC

(* ------------------------------ bounds -------------------------------- *)

\* calls of draw_series_with_tooltips made on the chart context
MaxCalls == 2
\* elements of one input series
MaxElems == 2
\* points of one element
MaxPts == 2
\* largest base pixel coordinate of an area asked about (the smallest is -1)
MaxBase == 2
\* largest width and height of an area asked about
MaxDim == 2

(* ------------------------- data and geometry --------------------------- *)

None == [kind |-> "None"]

\* The i-th sample of the plotted data (the example plots samples of a
\* function at increasing x); x and y of a sample always differ.
DataPt(i) == <<i - 1, ((3 * i) % 5) + 5>>

\* The guest-space point sequence of the k-th element of a series when it has
\* n points: n consecutive samples, starting at the k-th.
PointsOf(k, n) == [i \in 1..n |-> DataPt(k - 1 + i)]

\* The colour and label given to the k-th call, alternating between the two
\* series drawn by the example.
SeriesStyle(k) ==
    IF k % 2 = 1
    THEN [color |-> [rgb |-> <<255, 0, 0>>, alpha |-> 100], label |-> "sin(x)"]
    ELSE [color |-> [rgb |-> <<0, 0, 255>>, alpha |-> 100], label |-> "cos(x)"]

\* The chart's drawing area: base pixel and size.
PlotArea == [base |-> <<60, 40>>, dim |-> <<40, 20>>]

\* Axis ranges of the primary coordinate system and those offered to
\* set_secondary_coord.
PrimaryX == [lo |-> 0, hi |-> 4]
PrimaryY == [lo |-> 5, hi |-> 9]
SecondaryRanges ==
    { <<[lo |-> 0, hi |-> 8], [lo |-> -4, hi |-> 6]>>,
      <<[lo |-> 0, hi |-> 4], [lo |-> 0, hi |-> 10]>> }

(* --------------------------- coordinate specs -------------------------- *)

\* Ranged::map of a linear axis: the pixel offset of v within limit.
RangedMap(spec, v, limit) ==
    LET actual == limit[2] - limit[1]
        num    == v - spec.lo
        den    == spec.hi - spec.lo
    IN  IF actual = 0 THEN limit[2]
        ELSE IF actual > 0 THEN limit[1] + ((actual * num) \div den)
        ELSE limit[1] - (((-actual) * num) \div den)

\* ValueFormatter::format_ext: the decimal text of the value.
format_ext(spec, v) == ToString(v)

\* DrawingArea::get_pixel_range: (x0..x0+w, y0..y0+h)
get_pixel_range(da) ==
    << <<da.base[1], da.base[1] + da.dim[1]>>,
       <<da.base[2], da.base[2] + da.dim[2]>> >>

\* Cartesian2d::new
Cartesian2d_new(x, y, pixel_range) ==
    [logic_x |-> x, logic_y |-> y,
     back_x |-> pixel_range[1], back_y |-> pixel_range[2]]

\* The primary system built with the chart: Y pixel extent inverted once.
PrimaryCoord ==
    LET pr == get_pixel_range(PlotArea)
    IN  Cartesian2d_new(PrimaryX, PrimaryY, <<pr[1], <<pr[2][2], pr[2][1]>> >>)

\* DrawingArea::map_coordinate through a Cartesian2d: the axes are mapped
\* independently.
map_coordinate(c, pt) ==
    << RangedMap(c.logic_x, pt[1], c.back_x),
       RangedMap(c.logic_y, pt[2], c.back_y) >>

\* ChartContext::backend_coord
backend_coord(c, pt) == map_coordinate(c, pt)

\* Color::to_backend_color
to_backend_color(c) == [alpha |-> c.alpha, rgb |-> c.rgb]

(* ------------------------------- state --------------------------------- *)

VARIABLES
    next_series_id,  \* ChartContext::next_series_id
    series_anno,     \* ChartContext::series_anno, the legend records
    stack,           \* context stack of the drawing area
    coord,           \* primary coordinate system of the drawing area
    secondary,       \* secondary coordinate system, None until attached
    pc,              \* position of the call in progress
    series,          \* elements the call has taken from its input so far
    series_id,       \* local series_id of the call
    idx,             \* elements of the input completely processed
    opened,          \* local `opened` of the current element
    result,          \* "none" while running or before any call, "Ok", "Err"
    log,             \* backend operations issued by the current/last call
    base,            \* context stack when the current/last call started
    anno0,           \* legend records when the current/last call started
    issued,          \* series ids allocated, in call order
    okCalls,         \* calls that returned Ok so far
    drawing_area,    \* ChartContext::drawing_area: base pixel and size
    area,            \* the area asked about, None when absent
    overlap          \* answers of is_overlapping_drawing_area so far

vars == <<next_series_id, series_anno, stack, coord, secondary, pc, series,
          series_id, idx, opened, result, log, base, anno0, issued, okCalls,
          drawing_area, area, overlap>>

Init ==
    /\ next_series_id = 0
    /\ series_anno = <<>>
    /\ stack = <<>>
    /\ coord = PrimaryCoord
    /\ secondary = None
    /\ pc = "idle"
    /\ series = <<>>
    /\ series_id = 0
    /\ idx = 0
    /\ opened = FALSE
    /\ result = "none"
    /\ log = <<>>
    /\ base = <<>>
    /\ anno0 = 0
    /\ issued = <<>>
    /\ okCalls = 0
    /\ drawing_area = PlotArea
    /\ area = None
    /\ overlap = <<>>


(* ------------------------- element contexts ---------------------------- *)

\* plotters_backend::ElementContext and Interpolation
DataSeries(id, color, label) ==
    [kind |-> "DataSeries", id |-> id, color |-> color, label |-> label]

DataPoint(c, xl, yl, sid) ==
    [kind |-> "DataPoint", coord |-> c, x_label |-> xl, y_label |-> yl,
     series_id |-> sid]

Discrete(points) == [kind |-> "Discrete", points |-> points]

DataLine(xi, yi, sid) ==
    [kind |-> "DataLine", x_interpolation |-> xi, y_interpolation |-> yi,
     series_id |-> sid]

\* DrawingArea::begin_context pushes the context.
begin_context(stk, ctx) == Append(stk, ctx)

\* DrawingArea::end_context pops the most recently pushed context.
end_context(stk) == SubSeq(stk, 1, Len(stk) - 1)

\* ChartContext::alloc_series_anno pushes a fresh legend record.
alloc_series_anno(annos) == Append(annos, [label |-> None, draw_func |-> None])

(* ------------------- draw_series_with_tooltips: data ------------------- *)

\* A backend operation issued by the call: which operation, the source line
\* that issues it, the element it is issued for (0: the series itself), the
\* context it carries, and whether the backend accepted it.
Event(op, site, elem, ctx, ok) ==
    [op |-> op, site |-> site, elem |-> elem, ctx |-> ctx, ok |-> ok]

\* next_series_id += 1
NextSeriesIdStuck(n) == n
NextSeriesId(n) == n + 1

\* the DataSeries context of the call
SeriesContextAsPoint(id, color, label) ==
    DataPoint(<<0, 0>>, label, label, id)
SeriesContext(id, color, label) ==
    DataSeries(id, to_backend_color(color), label)

\* `mapped`: per point (backend coord, x label, y label)
MappedSwapped(c, elem) ==
    [i \in 1..Len(elem) |->
        << map_coordinate(c, elem[i]),
           format_ext(c.logic_y, elem[i][2]),
           format_ext(c.logic_x, elem[i][1]) >>]
Mapped(c, elem) ==
    [i \in 1..Len(elem) |->
        << map_coordinate(c, elem[i]),
           format_ext(c.logic_x, elem[i][1]),
           format_ext(c.logic_y, elem[i][2]) >>]

\* x_points / y_points of a multi-point element
XPointsFromY(mapped) == [i \in 1..Len(mapped) |-> <<mapped[i][1][2], mapped[i][2]>>]
XPoints(mapped) == [i \in 1..Len(mapped) |-> <<mapped[i][1][1], mapped[i][2]>>]
YPoints(mapped) == [i \in 1..Len(mapped) |-> <<mapped[i][1][2], mapped[i][3]>>]

\* The nested context of an element and the value of `opened`.
NestedContextAlwaysOpened(mapped, sid) ==
    IF Len(mapped) <= 1
    THEN IF Len(mapped) >= 1
         THEN [opened |-> TRUE,
               ctx |-> DataPoint(mapped[1][1], mapped[1][2], mapped[1][3], sid)]
         ELSE [opened |-> TRUE, ctx |-> None]
    ELSE [opened |-> TRUE,
          ctx |-> DataLine(Discrete(XPoints(mapped)), Discrete(YPoints(mapped)), sid)]
NestedContextLineFromOne(mapped, sid) ==
    IF Len(mapped) < 1
    THEN [opened |-> FALSE, ctx |-> None]
    ELSE [opened |-> TRUE,
          ctx |-> DataLine(Discrete(XPoints(mapped)), Discrete(YPoints(mapped)), sid)]
NestedContextNextId(mapped, sid) ==
    IF Len(mapped) <= 1
    THEN IF Len(mapped) >= 1
         THEN [opened |-> TRUE,
               ctx |-> DataPoint(mapped[1][1], mapped[1][2], mapped[1][3], sid + 1)]
         ELSE [opened |-> FALSE, ctx |-> None]
    ELSE [opened |-> TRUE,
          ctx |-> DataLine(Discrete(XPoints(mapped)), Discrete(YPoints(mapped)),
                           sid + 1)]
NestedContext(mapped, sid) ==
    IF Len(mapped) <= 1
    THEN IF Len(mapped) >= 1
         THEN [opened |-> TRUE,
               ctx |-> DataPoint(mapped[1][1], mapped[1][2], mapped[1][3], sid)]
         ELSE [opened |-> FALSE, ctx |-> None]
    ELSE [opened |-> TRUE,
          ctx |-> DataLine(Discrete(XPoints(mapped)), Discrete(YPoints(mapped)), sid)]

\* The `?` after a backend operation: on failure the call returns the error
\* at once; otherwise it goes on to `next` (returning `res` if that ends it).
TrySwallow(ok, next, res) == [pc |-> next, result |-> res]
Try(ok, next, res) ==
    IF ok THEN [pc |-> next, result |-> res]
    ELSE [pc |-> "idle", result |-> "Err"]

\* After a successful draw: close the nested context if one was opened.
AfterDrawNoClose(o) == "loop"
AfterDraw(o) == IF o THEN "end_elem" ELSE "loop"

\* Ok(self.alloc_series_anno())
ReturnLastAnno(annos) == annos
ReturnOk(annos) == alloc_series_anno(annos)

\* set_secondary_coord: the chart becomes the primary of a dual context
\* whose secondary system covers the same pixel rectangle.
set_secondary_coord_noinvert(c, da, x_coord, y_coord) ==
    [primary   |-> c,
     secondary |-> Cartesian2d_new(x_coord, y_coord, get_pixel_range(da))]
set_secondary_coord_swapped(c, da, x_coord, y_coord) ==
    LET pr == get_pixel_range(da)
    IN  [primary   |-> Cartesian2d_new(x_coord, y_coord,
                                       <<pr[1], <<pr[2][2], pr[2][1]>> >>),
         secondary |-> c]
set_secondary_coord(c, da, x_coord, y_coord) ==
    LET pr == get_pixel_range(da)
    IN  [primary   |-> c,
         secondary |-> Cartesian2d_new(x_coord, y_coord,
                                       <<pr[1], <<pr[2][2], pr[2][1]>> >>)]

\* i32::max, i32::min
Max(a, b) == IF a >= b THEN a ELSE b
Min(a, b) == IF a <= b THEN a ELSE b

\* is_overlapping_drawing_area: does the area `a` (None when absent) share a
\* pixel with the drawing area `da`.  Every size modelled is far below
\* i32::MAX, where `w as i32` is w and the sums do not overflow.
is_overlapping_touching(da, a) ==
    IF a # None
    THEN LET x0 == a.base[1]
             y0 == a.base[2]
             x1 == x0 + a.dim[1]
             y1 == y0 + a.dim[2]
             dx0 == da.base[1]
             dy0 == da.base[2]
             dx1 == dx0 + da.dim[1]
             dy1 == dy0 + da.dim[2]
         IN  Min(x1, dx1) >= Max(x0, dx0) /\ Min(y1, dy1) >= Max(y0, dy0)
    ELSE FALSE
is_overlapping_drawing_area(da, a) ==
    IF a # None
    THEN LET x0 == a.base[1]
             y0 == a.base[2]
             x1 == x0 + a.dim[1]
             y1 == y0 + a.dim[2]
             dx0 == da.base[1]
             dy0 == da.base[2]
             dx1 == dx0 + da.dim[1]
             dy1 == dy0 + da.dim[2]
             ox0 == Max(x0, dx0)
             ox1 == Min(x1, dx1)
             oy0 == Max(y0, dy0)
             oy1 == Min(y1, dy1)
         IN  ox1 > ox0 /\ oy1 > oy0
    ELSE FALSE

(* ------------------------------ actions -------------------------------- *)

\* draw_series_with_tooltips, entry: allocate the id, open the DataSeries.
BeginSeries(ok) ==
    /\ pc = "idle"
    /\ Len(issued) < MaxCalls
    /\ LET style == SeriesStyle(Len(issued) + 1)
           ctx == SeriesContext(next_series_id, style.color, style.label)
           out == Try(ok, "loop", "none")
       IN  /\ log' = <<Event("begin", 83, 0, ctx, ok)>>
           /\ stack' = IF ok THEN begin_context(stack, ctx) ELSE stack
           /\ pc' = out.pc
           /\ result' = out.result
    /\ series_id' = next_series_id
    /\ next_series_id' = NextSeriesId(next_series_id)
    /\ issued' = Append(issued, next_series_id)
    /\ series' = <<>>
    /\ idx' = 0
    /\ opened' = FALSE
    /\ base' = stack
    /\ anno0' = Len(series_anno)
    /\ UNCHANGED <<series_anno, coord, secondary,
                   okCalls, drawing_area,
                   area, overlap>>

\* Loop head, the input yields an element (of n points): map its points
\* and open its context.
BeginElement(n, ok) ==
    /\ pc = "loop"
    /\ idx < MaxElems
    /\ series' = Append(series, PointsOf(idx + 1, n))
    /\ LET nc  == NestedContext(Mapped(coord, PointsOf(idx + 1, n)), series_id)
       IN  IF nc.ctx = None
           THEN /\ pc' = "draw"
                /\ opened' = nc.opened
                /\ UNCHANGED <<log, stack, result>>
           ELSE LET out == Try(ok, "draw", "none")
                    site == IF nc.ctx.kind = "DataPoint" THEN 112 ELSE 129
                IN  /\ log' = Append(log, Event("begin", site, idx + 1, nc.ctx, ok))
                    /\ stack' = IF ok THEN begin_context(stack, nc.ctx) ELSE stack
                    /\ pc' = out.pc
                    /\ result' = out.result
                    /\ opened' = nc.opened
    /\ UNCHANGED <<next_series_id, series_anno, coord, secondary,
                   series_id, idx, base, anno0, issued,
                   okCalls, drawing_area,
                   area, overlap>>

\* self.drawing_area.draw(elem)?
DrawElement(ok) ==
    /\ pc = "draw"
    /\ LET out == Try(ok, AfterDraw(opened), "none")
       IN  /\ log' = Append(log, Event("draw", 137, idx + 1, None, ok))
           /\ pc' = out.pc
           /\ result' = out.result
           /\ idx' = IF out.pc = "loop" THEN idx + 1 ELSE idx
    /\ UNCHANGED <<next_series_id, series_anno, stack, coord, secondary,
                   series, series_id, opened, base, anno0, issued,
                   okCalls, drawing_area,
                   area, overlap>>

\* if opened { self.drawing_area.end_context()?; }
EndElement(ok) ==
    /\ pc = "end_elem"
    /\ stack = <<>> => ~ok
    /\ LET out == Try(ok, "loop", "none")
       IN  /\ log' = Append(log, Event("end", 139, idx + 1, None, ok))
           /\ stack' = IF ok THEN end_context(stack) ELSE stack
           /\ pc' = out.pc
           /\ result' = out.result
           /\ idx' = IF out.pc = "loop" THEN idx + 1 ELSE idx
    /\ UNCHANGED <<next_series_id, series_anno, coord, secondary, series,
                   series_id, opened, base, anno0, issued,
                   okCalls, drawing_area,
                   area, overlap>>

\* Loop exit, the input is exhausted: close the DataSeries and return the
\* new legend record.
EndSeries(ok) ==
    /\ pc = "loop"
    /\ stack = <<>> => ~ok
    /\ LET out == Try(ok, "idle", "Ok")
       IN  /\ log' = Append(log, Event("end", 142, 0, None, ok))
           /\ stack' = IF ok THEN end_context(stack) ELSE stack
           /\ pc' = out.pc
           /\ result' = out.result
           /\ series_anno' = IF out.result = "Ok" THEN ReturnOk(series_anno)
                             ELSE series_anno
           /\ okCalls' = IF out.result = "Ok" THEN okCalls + 1 ELSE okCalls
    /\ UNCHANGED <<next_series_id, coord, secondary, series, series_id, idx,
                   opened, base, anno0, issued,
                   drawing_area, area, overlap>>

\* set_secondary_coord, between calls; it consumes the chart context, so it
\* happens at most once.
SetSecondaryCoord(x_coord, y_coord) ==
    /\ pc = "idle"
    /\ secondary = None
    /\ LET dual == set_secondary_coord(coord, drawing_area, x_coord, y_coord)
       IN  /\ coord' = dual.primary
           /\ secondary' = dual.secondary
    /\ UNCHANGED <<next_series_id, series_anno, stack, pc, series, series_id,
                   idx, opened, result, log, base, anno0, issued,
                   okCalls, drawing_area,
                   area, overlap>>

Next ==
    \/ \E ok \in BOOLEAN : BeginSeries(ok)
    \/ \E n \in 0..MaxPts, ok \in BOOLEAN : BeginElement(n, ok)
    \/ \E ok \in BOOLEAN : DrawElement(ok)
    \/ \E ok \in BOOLEAN : EndElement(ok)
    \/ \E ok \in BOOLEAN : EndSeries(ok)
    \/ \E r \in SecondaryRanges : SetSecondaryCoord(r[1], r[2])

Spec == Init /\ [][Next]_vars

(* ----------------- is_overlapping_drawing_area alone ------------------- *)

\* The areas asked about and the drawing areas of the chart.
Rects ==
    { [base |-> <<x, y>>, dim |-> <<w, h>>] :
          x \in (-1)..MaxBase, y \in (-1)..MaxBase,
          w \in 0..MaxDim, h \in 0..MaxDim }

\* A chart context on any drawing area, asked about any area or none.
InitOverlap ==
    /\ next_series_id = 0
    /\ series_anno = <<>>
    /\ stack = <<>>
    /\ coord = PrimaryCoord
    /\ secondary = None
    /\ pc = "idle"
    /\ series = <<>>
    /\ series_id = 0
    /\ idx = 0
    /\ opened = FALSE
    /\ result = "none"
    /\ log = <<>>
    /\ base = <<>>
    /\ anno0 = 0
    /\ issued = <<>>
    /\ okCalls = 0
    /\ drawing_area \in Rects
    /\ area \in Rects \cup {None}
    /\ overlap = <<>>

\* is_overlapping_drawing_area(area)
IsOverlapping ==
    /\ overlap = <<>>
    /\ overlap' = <<is_overlapping_drawing_area(drawing_area, area)>>
    /\ UNCHANGED <<next_series_id, series_anno, stack, coord, secondary, pc,
                   series, series_id, idx, opened, result, log, base, anno0,
                   issued, okCalls, drawing_area, area>>

NextOverlap == IsOverlapping

SpecOverlap == InitOverlap /\ [][NextOverlap]_vars


(* ------------------------ reading the call's log ----------------------- *)

Last == log[Len(log)]

NoFailure == \A k \in DOMAIN log : log[k].ok

\* The contexts of the call that are open after its first k operations: the
\* accepted begin_context/end_context notifications replayed on a stack.
RECURSIVE Replay(_)
Replay(k) ==
    IF k = 0 THEN <<>>
    ELSE LET e == log[k]
             prev == Replay(k - 1)
         IN  IF ~e.ok THEN prev
             ELSE IF e.op = "begin" THEN Append(prev, e.ctx)
             ELSE IF e.op = "end" THEN SubSeq(prev, 1, Len(prev) - 1)
             ELSE prev

Depth(k) == Len(Replay(k))

Nested == {"DataPoint", "DataLine"}

Draws == SelectSeq(log, LAMBDA e : e.op = "draw")


(* ------------------------------- claims -------------------------------- *)

\* C1: in a call in which no backend operation fails, the context
\* notifications are well nested: the DataSeries is opened first and closed
\* last (by the final operation of a call that returned Ok), every
\* DataPoint/DataLine is opened while exactly the DataSeries is open and is
\* closed before it, every end_context closes the most recently opened
\* still-open context of the same call, at most two contexts of the call are
\* open, and the drawing area's stack is the stack of the call's start plus
\* the call's open contexts.
C1_WellNested ==
    (log # <<>> /\ NoFailure) =>
        /\ log[1].op = "begin" /\ log[1].ctx.kind = "DataSeries"
        /\ \A k \in 1..Len(log) :
              /\ Depth(k) \in 0..2
              /\ Depth(k) >= 1 => Replay(k)[1] = log[1].ctx
              /\ Depth(k) = 0 => k = Len(log) /\ result = "Ok"
              /\ (k > 1 /\ log[k].op = "begin") =>
                    /\ log[k].ctx.kind \in Nested
                    /\ Depth(k - 1) = 1
              /\ log[k].op = "end" =>
                    /\ Depth(k - 1) >= 1
                    /\ \/ Depth(k - 1) = 2 /\ log[k].site = 139
                       \/ Depth(k - 1) = 1 /\ log[k].site = 142
              /\ log[k].op = "draw" => Depth(k) = Depth(k - 1)
        /\ stack = base \o Replay(Len(log))
        /\ result = "Ok" => Depth(Len(log)) = 0 /\ Last.site = 142

\* a successful call that opened and closed a DataPoint and a DataLine
C1_Witness ==
    /\ pc = "idle" /\ result = "Ok"
    /\ \E j, k \in DOMAIN log :
          /\ log[j].op = "begin" /\ log[j].ctx.kind = "DataPoint"
          /\ log[k].op = "begin" /\ log[k].ctx.kind = "DataLine"

\* C2: after a call in which draw fails for some element, the context stack
\* holds no context opened by that call.
C2_NoLeakAfterFailedDraw ==
    (pc = "idle" /\ result = "Err" /\ Last.op = "draw") => stack = base

\* C3: a failing begin_context, draw or end_context aborts the call at once:
\* the failed operation is the last one the call issues, the call returns
\* the error, and the contexts opened before the failure are left open (the
\* DataSeries and the element's DataPoint/DataLine after a failed draw of an
\* element with points, the DataSeries alone for a zero-point element; the
\* contexts beneath the one a failed begin_context or end_context was about).
C3_FailureAborts ==
    /\ \A k \in 1..(Len(log) - 1) : log[k].ok
    /\ result = "Err" <=> (log # <<>> /\ ~Last.ok)
    /\ result = "Err" =>
          /\ pc = "idle"
          /\ LET before == base \o Replay(Len(log) - 1)
                 kept   == IF Last.op = "end" THEN Len(before) - 1 ELSE Len(before)
             IN  /\ Len(stack) >= kept
                 /\ SubSeq(stack, 1, kept) = SubSeq(before, 1, kept)
                 /\ Last.op = "draw" => stack = before
          /\ Len(series_anno) = anno0
          /\ Last.op = "draw" =>
                LET n == Len(series[Last.elem])
                    own == SubSeq(stack, Len(base) + 1, Len(stack))
                IN  /\ own[1].kind = "DataSeries" /\ own[1].id = series_id
                    /\ n = 0 => Len(own) = 1
                    /\ n = 1 => Len(own) = 2 /\ own[2].kind = "DataPoint"
                    /\ n >= 2 => Len(own) = 2 /\ own[2].kind = "DataLine"
          /\ (Last.op = "begin" /\ Last.elem > 0) =>
                /\ Len(stack) > Len(base)
                /\ stack[Len(base) + 1] = log[1].ctx

\* a failed draw of a second element, wrapped in a DataLine
C3_Witness ==
    /\ pc = "idle" /\ result = "Err"
    /\ Len(log) >= 2 /\ Last.op = "draw" /\ Last.elem = 2
    /\ stack[Len(stack)].kind = "DataLine"
    /\ Len(stack) = Len(base) + 2


\* C4: series ids come from a counter that only increases: the ids of
\* successive calls on the chart context are strictly increasing (so no id
\* is used by two calls), the DataSeries context of a call carries the id
\* allocated by that call, and the counter is above every id given out.
C4_SeriesIdsIncrease ==
    /\ \A i, j \in DOMAIN issued : i < j => issued[i] < issued[j]
    /\ \A i \in DOMAIN issued : issued[i] < next_series_id
    /\ log # <<>> =>
          /\ log[1].ctx.id = issued[Len(issued)]
          /\ series_id = issued[Len(issued)]
    /\ \A i, j \in DOMAIN stack :
          (i < j /\ stack[i].kind = "DataSeries" /\ stack[j].kind = "DataSeries")
              => stack[i].id < stack[j].id

\* a second call has opened its DataSeries
C4_Witness ==
    /\ Len(issued) = 2
    /\ log # <<>> /\ log[1].ok /\ log[1].ctx.kind = "DataSeries"
    /\ log[1].ctx.id = 1

\* C5: on an empty input, with no backend failure, the call issues exactly
\* a begin_context of a DataSeries immediately followed by an end_context,
\* no draw and nothing else, and allocates exactly one legend record.
C5_EmptyInput ==
    (pc = "idle" /\ result = "Ok" /\ series = <<>>) =>
        /\ Len(log) = 2
        /\ log[1].op = "begin" /\ log[1].ok
        /\ log[1].ctx.kind = "DataSeries" /\ log[1].ctx.id = series_id
        /\ LET st == SeriesStyle(Len(issued))
           IN  log[1].ctx = DataSeries(series_id, to_backend_color(st.color), st.label)
        /\ log[2].op = "end" /\ log[2].ok
        /\ Len(series_anno) = anno0 + 1
        /\ stack = base

\* an empty series drawn as the second call on the chart context
C5_Witness ==
    /\ pc = "idle" /\ result = "Ok" /\ series = <<>>
    /\ Len(issued) = 2 /\ Len(log) = 2
    /\ log[1].ctx.label = "cos(x)"

\* C6: for an input of exactly one single-point element the call issues, in
\* this order: the DataSeries open, one DataPoint open carrying the mapped
\* backend coordinate of the point, its formatted X and Y labels and the
\* series id, the draw of the element, the DataPoint close, the DataSeries
\* close.
C6_SinglePoint ==
    (pc = "idle" /\ result = "Ok" /\ Len(series) = 1 /\ Len(series[1]) = 1) =>
        LET pt == series[1][1]
        IN  /\ Len(log) = 5
            /\ log[1].op = "begin" /\ log[1].ctx.kind = "DataSeries"
            /\ log[2].op = "begin"
            /\ log[2].ctx = [kind      |-> "DataPoint",
                             coord     |-> backend_coord(coord, pt),
                             x_label   |-> format_ext(coord.logic_x, pt[1]),
                             y_label   |-> format_ext(coord.logic_y, pt[2]),
                             series_id |-> log[1].ctx.id]
            /\ log[3].op = "draw" /\ log[3].elem = 1
            /\ log[4].op = "end" /\ log[5].op = "end"
            /\ Replay(3) = <<log[1].ctx, log[2].ctx>>
            /\ Replay(4) = <<log[1].ctx>>
            /\ Replay(5) = <<>>

\* the point (0, 8) drawn alone: pixel (60, 45), labels "0" and "8"
C6_Witness ==
    /\ pc = "idle" /\ result = "Ok" /\ series = << <<DataPt(1)>> >>
    /\ Len(log) = 5
    /\ log[2].ctx.coord = <<60, 45>>
    /\ log[2].ctx.x_label = "0" /\ log[2].ctx.y_label = "8"

\* C7: the DataLine opened for an element of N >= 2 points carries two
\* Discrete interpolations of exactly N entries each, in the order of the
\* element's points: entry i of X is (x pixel of the mapped i-th point,
\* format_ext of its x value), entry i of Y is (y pixel of the same mapped
\* point, format_ext of its y value).
C7_DataLineInterpolation ==
    \A k \in DOMAIN log :
        (log[k].op = "begin" /\ log[k].elem > 0 /\ Len(series[log[k].elem]) >= 2) =>
            LET e  == series[log[k].elem]
                N  == Len(e)
                c  == log[k].ctx
                xs == c.x_interpolation
                ys == c.y_interpolation
            IN  /\ c.kind = "DataLine"
                /\ xs.kind = "Discrete" /\ ys.kind = "Discrete"
                /\ Len(xs.points) = N /\ Len(ys.points) = N
                /\ \A i \in 1..N :
                      /\ xs.points[i] = << backend_coord(coord, e[i])[1],
                                           format_ext(coord.logic_x, e[i][1]) >>
                      /\ ys.points[i] = << backend_coord(coord, e[i])[2],
                                           format_ext(coord.logic_y, e[i][2]) >>

\* the line through (0, 8) and (1, 6): X entries (60, "0"), (70, "1") and
\* Y entries (45, "8"), (55, "6")
C7_Witness ==
    \E k \in DOMAIN log :
        /\ log[k].op = "begin" /\ log[k].ok /\ log[k].ctx.kind = "DataLine"
        /\ log[k].ctx.x_interpolation.points = << <<60, "0">>, <<70, "1">> >>
        /\ log[k].ctx.y_interpolation.points = << <<45, "8">>, <<55, "6">> >>

\* C8: an element with no points opens no nested context: it is drawn with
\* only the DataSeries of the call open, no begin_context and no end_context
\* is issued for it, and the DataSeries stays open for the elements after it.
C8_ZeroPointElement ==
    \A i \in DOMAIN series :
        Len(series[i]) = 0 =>
            /\ \A k \in DOMAIN log :
                  log[k].elem = i =>
                      /\ log[k].op = "draw"
                      /\ Replay(k - 1) = <<log[1].ctx>>
                      /\ log[1].ctx.kind = "DataSeries"
                      /\ log[k].ok => Replay(k) = <<log[1].ctx>>
            /\ \A k \in DOMAIN log :
                  log[k].elem > i => Depth(k - 1) >= 1 /\ Replay(k - 1)[1] = log[1].ctx
            /\ (pc \in {"loop", "draw", "end_elem"} /\ idx >= i) =>
                  /\ Len(stack) > Len(base)
                  /\ stack[Len(base) + 1] = log[1].ctx

\* a zero-point element was drawn and the element after it has a context
C8_Witness ==
    /\ Len(series) = 2 /\ Len(series[1]) = 0
    /\ \E k \in DOMAIN log : log[k].op = "draw" /\ log[k].elem = 1 /\ log[k].ok
    /\ \E k \in DOMAIN log : log[k].op = "begin" /\ log[k].elem = 2 /\ log[k].ok

\* C9: no partial success: a finished call returned Ok or an error; when it
\* returned Ok no operation failed, every element of the input was drawn
\* exactly once, in input order, and each element's context was closed
\* before anything was issued for the next element.
C9_NoPartialSuccess ==
    /\ (pc = "idle" /\ log # <<>>) => result \in {"Ok", "Err"}
    /\ pc # "idle" => result = "none"
    /\ result = "Ok" =>
          /\ pc = "idle"
          /\ NoFailure
          /\ Len(Draws) = Len(series)
          /\ \A i \in DOMAIN Draws : Draws[i].elem = i
          /\ \A j, k \in DOMAIN log :
                (j < k /\ log[j].elem > 0 /\ log[k].elem > 0)
                    => log[j].elem <= log[k].elem
          /\ \A k \in DOMAIN log :
                (log[k].op = "begin" /\ log[k].elem > 0) =>
                    /\ log[k + 1].op = "draw" /\ log[k + 1].elem = log[k].elem
                    /\ log[k + 2].op = "end" /\ log[k + 2].elem = log[k].elem
          /\ \A k \in DOMAIN log :
                (k > 1 /\ log[k].op = "draw") => Depth(k - 1) = IF Len(series[log[k].elem]) = 0 THEN 1 ELSE 2

\* a call that returned Ok after drawing two elements with contexts
C9_Witness ==
    /\ pc = "idle" /\ result = "Ok" /\ Len(series) = 2
    /\ Len(series[1]) >= 1 /\ Len(series[2]) >= 1
    /\ Len(log) = 8

\* C10: set_secondary_coord leaves the primary mapping alone: every data
\* point maps to the same backend coordinate before and after the secondary
\* system is attached, whatever ranges the secondary system is given.
C10_PrimaryMappingKept ==
    [][(secondary = None /\ secondary' # None) =>
          \A i \in 1..(MaxElems + MaxPts) :
              backend_coord(coord', DataPt(i)) = backend_coord(coord, DataPt(i))]_vars

\* a point drawn through the primary system after a secondary system with
\* other ranges was attached
C10_Witness ==
    /\ secondary # None
    /\ secondary.logic_x # coord.logic_x
    /\ \E k \in DOMAIN log :
          /\ log[k].ok /\ log[k].ctx.kind = "DataPoint"
          /\ log[k].ctx.coord = <<60, 45>>


\* C11: each call that returns Ok returns the legend record it has just
\* allocated: the chart context holds one legend record per call that
\* returned Ok (so the number never shrinks), a call adds at most one, and
\* it adds it only once its DataSeries context has been closed.
C11_LegendRecordPerOkCall ==
    /\ Len(series_anno) = okCalls
    /\ log # <<>> =>
          Len(series_anno) = anno0 + (IF result = "Ok" THEN 1 ELSE 0)
    /\ pc # "idle" => Len(series_anno) = anno0
    /\ result = "Ok" =>
          /\ Last.op = "end" /\ Last.site = 142 /\ Last.ok
          /\ Depth(Len(log)) = 0
          /\ series_anno[anno0 + 1] = [label |-> None, draw_func |-> None]

\* two calls returned Ok, the second after drawing an element
C11_Witness ==
    /\ pc = "idle" /\ result = "Ok"
    /\ okCalls = 2 /\ Len(series_anno) = 2 /\ anno0 = 1
    /\ Len(series) >= 1

\* C12: after a call that returned Ok the context stack is exactly the one
\* of the call's start, and the call issued as many begin_context as
\* end_context notifications, whatever the input.
C12_StackRestored ==
    result = "Ok" =>
        /\ stack = base
        /\ Cardinality({k \in DOMAIN log : log[k].op = "begin"})
             = Cardinality({k \in DOMAIN log : log[k].op = "end"})

\* a call returned Ok on a stack that was not empty, after opening and
\* closing the contexts of two elements
C12_Witness ==
    /\ pc = "idle" /\ result = "Ok"
    /\ base # <<>> /\ stack = base
    /\ Cardinality({k \in DOMAIN log : log[k].op = "begin"}) = 3

\* C13: the nested context of an element depends only on its number of
\* points: none for zero points, a DataPoint for one, a DataLine for two or
\* more, at most one per element; in a call without failure the DataPoint
\* contexts opened are as many as the one-point elements and the DataLine
\* contexts as many as the elements with two or more points.
C13_ContextByPointCount ==
    /\ \A k \in DOMAIN log :
          (log[k].op = "begin" /\ log[k].elem > 0) =>
              LET n == Len(series[log[k].elem])
              IN  /\ n >= 1
                  /\ n = 1 <=> log[k].ctx.kind = "DataPoint"
                  /\ n >= 2 <=> log[k].ctx.kind = "DataLine"
    /\ \A j, k \in DOMAIN log :
          (log[j].op = "begin" /\ log[k].op = "begin" /\ log[j].elem = log[k].elem)
              => j = k
    /\ (result = "Ok" /\ NoFailure) =>
          /\ Cardinality({k \in DOMAIN log :
                             log[k].op = "begin" /\ log[k].ctx.kind = "DataPoint"})
               = Cardinality({i \in DOMAIN series : Len(series[i]) = 1})
          /\ Cardinality({k \in DOMAIN log :
                             log[k].op = "begin" /\ log[k].ctx.kind = "DataLine"})
               = Cardinality({i \in DOMAIN series : Len(series[i]) >= 2})

\* a series of a one-point and a two-point element, drawn without failure
C13_Witness ==
    /\ pc = "idle" /\ result = "Ok" /\ Len(series) = 2
    /\ Len(series[1]) = 1 /\ Len(series[2]) = 2
    /\ log[2].ctx.kind = "DataPoint" /\ log[5].ctx.kind = "DataLine"

\* C14: every DataPoint/DataLine carries the series id of the DataSeries of
\* the same call: on the context stack it lies directly above a DataSeries
\* with that id, also when several series were drawn on the chart context.
C14_NestedCarriesSeriesId ==
    /\ \A i \in DOMAIN stack :
          stack[i].kind \in Nested =>
              /\ i > 1
              /\ stack[i - 1].kind = "DataSeries"
              /\ stack[i - 1].id = stack[i].series_id
    /\ \A k \in DOMAIN log :
          (log[k].op = "begin" /\ log[k].elem > 0) =>
              /\ log[k].ctx.series_id = log[1].ctx.id
              /\ log[k].ctx.series_id = series_id

\* the second series has a DataLine open above the contexts the first,
\* failed, call left
C14_Witness ==
    /\ Len(stack) = 4
    /\ stack[2].kind = "DataPoint" /\ stack[2].series_id = 0
    /\ stack[3].kind = "DataSeries" /\ stack[3].id = 1
    /\ stack[4].kind = "DataLine" /\ stack[4].series_id = 1


\* C15: the secondary system built by set_secondary_coord covers the pixel
\* rectangle of the drawing area: its X pixel extent is the area's X pixel
\* range (the primary's), its Y pixel extent the area's Y pixel range with
\* start and end swapped, as the primary's is.
C15_SecondaryPixelRect ==
    secondary # None =>
        LET x0 == drawing_area.base[1]
            y0 == drawing_area.base[2]
            w  == drawing_area.dim[1]
            h  == drawing_area.dim[2]
        IN  /\ secondary.back_x = <<x0, x0 + w>>
            /\ secondary.back_y = <<y0 + h, y0>>
            /\ secondary.back_x = coord.back_x
            /\ secondary.back_y = coord.back_y

\* a secondary system over X pixels 60..100 and Y pixels 60..40
C15_Witness ==
    /\ secondary # None
    /\ secondary.back_x = <<60, 100>> /\ secondary.back_y = <<60, 40>>
    /\ secondary.logic_y = [lo |-> -4, hi |-> 6]

\* C16: a failed call consumes its series id and allocates no legend
\* record: the counter has advanced by the number of calls started (it is
\* advanced before the first backend operation, so also when that one
\* fails), no two calls got the same id, and the legend records are as many
\* as the calls that returned Ok.
C16_FailedCallConsumesId ==
    /\ next_series_id = Len(issued)
    /\ \A i \in DOMAIN issued : issued[i] = i - 1
    /\ \A i, j \in DOMAIN issued : i # j => issued[i] # issued[j]
    /\ Len(series_anno) = okCalls
    /\ log # <<>> =>
          /\ log[1].ctx.id = series_id
          /\ next_series_id > series_id
    /\ (log # <<>> /\ ~NoFailure) => Len(series_anno) = anno0
    /\ result = "Err" => Len(series_anno) = anno0

\* the first call failed, the second got the next id and returned Ok
C16_Witness ==
    /\ pc = "idle" /\ result = "Ok"
    /\ Len(issued) = 2 /\ okCalls = 1 /\ Len(series_anno) = 1
    /\ series_id = 1 /\ next_series_id = 2
    /\ stack # <<>>

\* The pixels of a rectangle [x0, x0+w) x [y0, y0+h)
InRect(r, px, py) ==
    /\ r.base[1] <= px /\ px < r.base[1] + r.dim[1]
    /\ r.base[2] <= py /\ py < r.base[2] + r.dim[2]

Pixels == (-1)..(MaxBase + MaxDim)

\* C17: is_overlapping_drawing_area answers true exactly when the area is
\* present and shares a pixel with the drawing area (their intersection has
\* positive width and height); it answers false for an absent area, for
\* rectangles that only touch or lie apart, and when either has zero width
\* or height; exchanging the two rectangles gives the same answer.
C17_OverlapIffSharedPixel ==
    overlap # <<>> =>
        /\ overlap[1] =
              (/\ area # None
               /\ \E px \in Pixels, py \in Pixels :
                     InRect(area, px, py) /\ InRect(drawing_area, px, py))
        /\ area = None => overlap[1] = FALSE
        /\ area # None =>
              /\ overlap[1] = is_overlapping_drawing_area(area, drawing_area)
              /\ (\/ area.dim[1] = 0 \/ area.dim[2] = 0
                  \/ drawing_area.dim[1] = 0 \/ drawing_area.dim[2] = 0)
                    => overlap[1] = FALSE
              /\ (\/ area.base[1] + area.dim[1] <= drawing_area.base[1]
                  \/ drawing_area.base[1] + drawing_area.dim[1] <= area.base[1]
                  \/ area.base[2] + area.dim[2] <= drawing_area.base[2]
                  \/ drawing_area.base[2] + drawing_area.dim[2] <= area.base[2])
                    => overlap[1] = FALSE

\* two 2x2 rectangles sharing the single pixel (1, 1)
C17_Witness ==
    /\ overlap = <<TRUE>>
    /\ drawing_area = [base |-> <<0, 0>>, dim |-> <<2, 2>>]
    /\ area = [base |-> <<1, 1>>, dim |-> <<2, 2>>]

====
